---------------------------- MODULE Spec2Model ----------------------------
(***************************************************************************)
(* Model of CommandsDetection_APU/Main.go: the command detection pipeline  *)
(* Main -> MainInternal -> sentenceCmdsDetector -> taskFilter -> join, and *)
(* the stand-alone removeRepeatedCmds pass.                                *)
(*                                                                         *)
(* Representation.                                                         *)
(*  - A Go string is a sequence of atoms (TLA+ strings).  CMDS_SEPARATOR   *)
(*    is an atom of its own and occurs inside no other atom, so            *)
(*    strings.Split / HasSuffix / += are computed on atoms exactly as the  *)
(*    Go code computes them on bytes.                                      *)
(*  - A float32 command code is an integer: the code only compares codes   *)
(*    for equality and with 0, and every code of the catalog modelled here *)
(*    is integral.                                                         *)
(*    In a sentence string the space is an atom of its own as well, and    *)
(*    a token of the sentence is one word atom or the empty string.        *)
(*  - `sentence_str` is the string Main is called with; `sentence` is the  *)
(*    token slice that reaches sentenceCmdsDetector at line 98, after      *)
(*    sentenceCorrection, strings.Split and the three NLP calls.           *)
(*  - sentenceCorrection, sentenceNLPPreparation and nlpAnalyzer are other *)
(*    files of the repository.  Their documented contract (a cleaned,      *)
(*    space-tokenizable sentence; the "it"s replaced) does not say which   *)
(*    string or slice they leave, so each is modelled by the set of all    *)
(*    results it may leave within the bounds.                              *)
(*  - The command catalog (main_words_GL, conditions_*_GL,                 *)
(*    HIGHEST_CMD_INT, WHATS_IT, WARN_WHATS_IT), wordsVerificationFunction,*)
(*    checkResultsWordsVerifFunc, PanicInt, Tcf and DelElemInSlice are     *)
(*    other files of the repository; they are modelled from their          *)
(*    documented contract.                                                 *)
(***************************************************************************)
EXTENDS Integers, Sequences, FiniteSets, TLC

VARIABLES
    pc,                \* position of the modelled call
    sentence_str,      \* Main: the sentence string of the call (Go string)
    sentence,          \* Main: the token slice given to sentenceCmdsDetector
    allowed_cmds_str,  \* Main: the allowed_cmds string (Go string)
    detected,          \* Main: what sentenceCmdsDetector returned, each code
                       \*       with the token and allowed-list position that
                       \*       produced it
    sentence_cmds,     \* the []float32 buffer taskFilter works on
    ret_var,           \* the string a call returns (Main, removeRepeatedCmds)
    filter_in,         \* taskFilter: the buffer as it was given
    filter_once,       \* taskFilter: the buffer after the first call
    dedupe_in,         \* removeRepeatedCmds: the string as it was given
    dedupe_once        \* removeRepeatedCmds: the string after the first call

vars == <<pc, sentence_str, sentence, allowed_cmds_str, detected, sentence_cmds, ret_var,
          filter_in, filter_once, dedupe_in, dedupe_once>>

---------------------------------------------------------------------------
(* Bounds of the model *)

MaxTokens == 3

MaxAllowed == 2

MaxCmds == 6

MaxDedupe == 6

---------------------------------------------------------------------------
(* Constants of Main.go *)

CMDS_SEPARATOR == ", "

\* The separator of strings.Split(sentence_str, " "), line 81.
WORDS_SEPARATOR == " "

ERR_CMD_DETECT == "3234_ERR_CMD_DETECT - "

spec_cmd_dont_CONST == -1

MARK_TERMINATION_FLOAT32 == 0

MARK_TERMINATION_STR == "3234_MARK_TERMINATION_STR"

DONT_WORD == "don't"

---------------------------------------------------------------------------
(* Generic sequence helpers *)

Last(s) == s[Len(s)]

Front(s) == SubSeq(s, 1, Len(s) - 1)

Range(s) == {s[i] : i \in 1..Len(s)}

SeqsUpTo(S, n) == UNION {[1..k -> S] : k \in 0..n}

Min(S) == CHOOSE x \in S : \A y \in S : x <= y

\* The elements of s at the positions in P, in increasing position order.
RECURSIVE Pick(_, _)
Pick(s, P) ==
    IF P = {} THEN <<>>
    ELSE LET m == CHOOSE x \in P : \A y \in P : y <= x
         IN  Pick(s, P \ {m}) \o <<s[m]>>

---------------------------------------------------------------------------
(* Go library functions, on the atom representation *)

\* strings.HasSuffix(str, CMDS_SEPARATOR)
HasSuffix(str) == Len(str) > 0 /\ Last(str) = CMDS_SEPARATOR

\* strings.HasPrefix(str, ERR_CMD_DETECT)
HasPrefix(str) == Len(str) > 0 /\ Head(str) = ERR_CMD_DETECT

\* strings.Split(str, CMDS_SEPARATOR): n separators give n+1 fields, the
\* empty string gives one empty field.
RECURSIVE Split(_)
Split(str) ==
    LET seps == {i \in 1..Len(str) : str[i] = CMDS_SEPARATOR}
    IN  IF seps = {} THEN <<str>>
        ELSE LET i == Min(seps)
             IN  <<SubSeq(str, 1, i - 1)>> \o Split(SubSeq(str, i + 1, Len(str)))

\* strings.Split(sentence_str, " "), line 81: n spaces give n+1 tokens, the
\* empty string gives the one token "".  A token is the text between two
\* spaces: here one word atom, or nothing.
RECURSIVE SplitWords(_)
SplitWords(str) ==
    LET seps == {i \in 1..Len(str) : str[i] = WORDS_SEPARATOR}
        word(field) == IF field = <<>> THEN "" ELSE field[1]
    IN  IF seps = {} THEN <<word(str)>>
        ELSE LET i == Min(seps)
             IN  <<word(SubSeq(str, 1, i - 1))>> \o SplitWords(SubSeq(str, i + 1, Len(str)))

\* The decimal integers the model's strings can spell.
Numerals ==
    [s \in {"-2", "-1", "0", "1", "2", "3", "4", "24", "25", "26", "27", "28", "29"} |->
        CASE s = "-2" -> -2 [] s = "-1" -> -1 [] s = "0" -> 0 [] s = "1" -> 1
          [] s = "2" -> 2 [] s = "3" -> 3 [] s = "4" -> 4 [] s = "24" -> 24
          [] s = "25" -> 25 [] s = "26" -> 26 [] s = "27" -> 27 [] s = "28" -> 28
          [] s = "29" -> 29]

\* number, _ := strconv.Atoi(str): the error is dropped and the number is 0
\* whenever str is not a decimal integer (the empty string included).
Atoi(str) ==
    IF Len(str) = 1 /\ str[1] \in DOMAIN Numerals THEN Numerals[str[1]] ELSE 0

\* float, _ := strconv.ParseFloat(str, 32); float32(float)
ParseFloat(str) ==
    IF Len(str) = 1 /\ str[1] \in DOMAIN Numerals THEN Numerals[str[1]] ELSE 0

\* fmt.Sprint(command) of an integral float32
Sprint(command) == ToString(command)

---------------------------------------------------------------------------
(* The command catalog and the collaborators of sentenceCmdsDetector.      *)
(* A two-command catalog in the shape Main.go indexes it: per command id,  *)
(* its trigger words and its condition lists; a condition is a list of     *)
(* sub-conditions <<index, word, word, ...>> closed by <<return code>>.    *)

HIGHEST_CMD_INT == 2

WHATS_IT == "3234_WHATS_IT"

WARN_WHATS_IT == "-2"

NONE == "3234_NONE"

main_words_GL ==
    << <<"on">>,
       <<"don't", "wifi", "on">> >>

conditions_return_GL ==
    << << << <<"0", "wifi">>, <<"-1", "on">>, <<"24">> >>,
          << <<"0", "wifi", "on">>, <<"25">> >> >>,
       << << <<"1", "on">>, <<"26">> >>,
          << <<"-1", "wifi">>, <<"1", "wifi", "don't">>, <<"27">> >>,
          << <<"28">> >>,
          << <<"-1", "wifi">>, <<"29">> >> >> >>

conditions_continue_GL ==
    << <<>>,
       <<>> >>

conditions_not_continue_GL ==
    << <<>>,
       << <<"0", WHATS_IT>> >> >>

\* wordsVerificationFunction: one sub-slice per role; role 0 is the token
\* after the trigger, role 1 the token before it, NONE where there is none.
wordsVerificationFunction(sentence_, sentence_counter, cmd_index) ==
    << <<IF sentence_counter < Len(sentence_) THEN sentence_[sentence_counter + 1] ELSE NONE>>,
       <<IF sentence_counter > 1 THEN sentence_[sentence_counter - 1] ELSE NONE>> >>

\* A sub-condition holds when the value it refers to (a role of the results,
\* or the triggering word for index -1) is one of its words.
SubCondHolds(sub_cond, sentence_word, results) ==
    LET index == Atoi(<<sub_cond[1]>>)
    IN  \E w \in 2..Len(sub_cond) :
            IF index = -1 THEN sentence_word = sub_cond[w]
            ELSE results[index + 1][1] = sub_cond[w]

\* checkResultsWordsVerifFunc: every "continue" sub-condition holds and the
\* "not continue" sub-conditions (if any) do not all hold.
checkResultsWordsVerifFunc(sentence_word, results, conds_continue, conds_not_continue) ==
    /\ \A j \in 1..Len(conds_continue) :
            SubCondHolds(conds_continue[j], sentence_word, results)
    /\ ~ ( /\ Len(conds_not_continue) > 0
           /\ \A j \in 1..Len(conds_not_continue) :
                SubCondHolds(conds_not_continue[j], sentence_word, results) )

\* GlobalUtils_APU.APU_ERR_PREFIX, which opens the text of an exception
\* raised by PanicInt (doc comment of Main, lines 49-51).
APU_ERR_PREFIX == "3234_APU_ERR_PREFIX"

\* GlobalUtilsInt_APU.PanicInt(code, description): the call is abandoned
\* with an exception whose text is APU_ERR_PREFIX and its requirements.
PanicInt(code, description) ==
    [panic |-> TRUE, e |-> <<APU_ERR_PREFIX, ToString(code), description>>, ret |-> <<>>]

Return(ret) == [panic |-> FALSE, e |-> <<>>, ret |-> ret]

---------------------------------------------------------------------------
(* sentenceCmdsDetector, lines 199-322 *)

\* Lines 268-290: does any word of the sub-condition match?
RECURSIVE WordMatch(_, _, _, _)
WordMatch(sub_cond, w, sentence_word, results) ==
    IF w > Len(sub_cond) THEN FALSE
    ELSE LET sub_cond_index_to_chk == Atoi(<<sub_cond[1]>>)
             sub_cond_word == sub_cond[w]
         IN  IF -1 = sub_cond_index_to_chk
             THEN IF sentence_word = sub_cond_word THEN TRUE
                  ELSE WordMatch(sub_cond, w + 1, sentence_word, results)
             ELSE IF results[sub_cond_index_to_chk + 1][1] = sub_cond_word THEN TRUE
                  ELSE WordMatch(sub_cond, w + 1, sentence_word, results)

\* Lines 258-297: all_sub_conds_matched over condition[:condition_len-1],
\* leaving at the first sub-condition without a match.
RECURSIVE AllSubCondsMatched(_, _, _, _)
AllSubCondsMatched(condition, j, sentence_word, results) ==
    IF j > Len(condition) - 1 THEN TRUE
    ELSE IF ~WordMatch(condition[j], 2, sentence_word, results) THEN FALSE
    ELSE AllSubCondsMatched(condition, j + 1, sentence_word, results)

\* A variant of the loop of lines 249-313 that does not stop at the first
\* condition that matched.
RECURSIVE ConditionsLoopNoBreak(_, _, _, _)
ConditionsLoopNoBreak(conditions, n, sentence_word, results) ==
    IF n > Len(conditions) THEN <<>>
    ELSE LET condition == conditions[n]
             condition_len == Len(condition)
             rest == ConditionsLoopNoBreak(conditions, n + 1, sentence_word, results)
         IN  IF 1 = condition_len
             THEN <<ParseFloat(<<condition[1][1]>>)>> \o rest
             ELSE IF AllSubCondsMatched(condition, 1, sentence_word, results)
                  THEN <<ParseFloat(<<condition[condition_len][1]>>)>> \o rest
                  ELSE rest

\* Lines 248-313: the codes appended for one trigger occurrence of one
\* command: the loop over conditions_return_GL[cmd_index] from condition n.
RECURSIVE ConditionsLoop(_, _, _, _)
ConditionsLoop(conditions, n, sentence_word, results) ==
    IF n > Len(conditions) THEN <<>>
    ELSE LET condition == conditions[n]
             condition_len == Len(condition)
         IN  IF 1 = condition_len
             THEN <<ParseFloat(<<condition[1][1]>>)>>
             ELSE IF AllSubCondsMatched(condition, 1, sentence_word, results)
                  THEN <<ParseFloat(<<condition[condition_len][1]>>)>>
                  ELSE ConditionsLoop(conditions, n + 1, sentence_word, results)

\* Lines 233-314: what a main word equal to the sentence word appends.
TriggerCodes(sentence_, sentence_counter, cmd_index) ==
    LET sentence_word == sentence_[sentence_counter]
        results == wordsVerificationFunction(sentence_, sentence_counter, cmd_index)
    IN  IF checkResultsWordsVerifFunc(sentence_word, results,
                                      conditions_continue_GL[cmd_index],
                                      conditions_not_continue_GL[cmd_index])
        THEN ConditionsLoop(conditions_return_GL[cmd_index], 1, sentence_word, results)
        ELSE <<>>

\* A code with the token position and the allowed_cmds position it came from.
RECURSIVE Tag(_, _, _)
Tag(codes, tok, idx) ==
    IF codes = <<>> THEN <<>>
    ELSE <<[code |-> Head(codes), tok |-> tok, idx |-> idx]>> \o Tag(Tail(codes), tok, idx)

\* Lines 222-316: the loop over main_words_GL[cmd_index] from main word m.
RECURSIVE MainWordsLoop(_, _, _, _, _)
MainWordsLoop(sentence_, sentence_counter, cmd_index, k, m) ==
    IF m > Len(main_words_GL[cmd_index]) THEN <<>>
    ELSE (IF main_words_GL[cmd_index][m] = sentence_[sentence_counter]
          THEN Tag(TriggerCodes(sentence_, sentence_counter, cmd_index), sentence_counter, k)
          ELSE <<>>)
         \o MainWordsLoop(sentence_, sentence_counter, cmd_index, k, m + 1)

\* Lines 210-317: the loop over allowed_cmds from position k; ret is the
\* slice built so far.
RECURSIVE AllowedCmdsLoop(_, _, _, _, _)
AllowedCmdsLoop(sentence_, sentence_counter, allowed_cmds, k, ret) ==
    IF k > Len(allowed_cmds) THEN Return(ret)
    ELSE LET cmd_index == allowed_cmds[k]
         IN  IF cmd_index <= 0
             THEN PanicInt(1, "Non-positive command identifier sent for detection")
             ELSE IF cmd_index > HIGHEST_CMD_INT
             THEN PanicInt(1, "Command identifier above highest value sent for detection")
             ELSE AllowedCmdsLoop(sentence_, sentence_counter, allowed_cmds, k + 1,
                     ret \o MainWordsLoop(sentence_, sentence_counter, cmd_index, k, 1))

\* A variant of the loop body of lines 204-318 in which the negation marker
\* is also looked up among the commands' trigger words.
TokenStepLookupDont(sentence_, sentence_counter, allowed_cmds, ret) ==
    LET sentence_word == sentence_[sentence_counter]
    IN  IF WHATS_IT = sentence_word
        THEN Return(ret \o Tag(<<ParseFloat(<<WARN_WHATS_IT>>)>>, sentence_counter, 0))
        ELSE AllowedCmdsLoop(sentence_, sentence_counter, allowed_cmds, 1,
                IF DONT_WORD = sentence_word
                THEN ret \o Tag(<<spec_cmd_dont_CONST>>, sentence_counter, 0)
                ELSE ret)

\* Lines 204-318: the body of the loop over the sentence, for one token.
TokenStep(sentence_, sentence_counter, allowed_cmds, ret) ==
    LET sentence_word == sentence_[sentence_counter]
    IN  IF DONT_WORD = sentence_word
        THEN Return(ret \o Tag(<<spec_cmd_dont_CONST>>, sentence_counter, 0))
        ELSE IF WHATS_IT = sentence_word
        THEN Return(ret \o Tag(<<ParseFloat(<<WARN_WHATS_IT>>)>>, sentence_counter, 0))
        ELSE AllowedCmdsLoop(sentence_, sentence_counter, allowed_cmds, 1, ret)

\* Lines 202-321: the loop over the sentence from token sentence_counter.
RECURSIVE SentenceLoop(_, _, _, _)
SentenceLoop(sentence_, sentence_counter, allowed_cmds, ret) ==
    IF sentence_counter > Len(sentence_) THEN Return(ret)
    ELSE LET step == TokenStep(sentence_, sentence_counter, allowed_cmds, ret)
         IN  IF step.panic THEN step
             ELSE SentenceLoop(sentence_, sentence_counter + 1, allowed_cmds, step.ret)

sentenceCmdsDetector(sentence_, allowed_cmds) ==
    SentenceLoop(sentence_, 1, allowed_cmds, <<>>)

\* The slice sentenceCmdsDetector returns: the codes alone.
RECURSIVE Codes(_)
Codes(tagged) ==
    IF tagged = <<>> THEN <<>> ELSE <<Head(tagged).code>> \o Codes(Tail(tagged))

---------------------------------------------------------------------------
(* taskFilter, lines 341-434 *)

\* GlobalUtilsInt_APU.DelElemInSlice(slice, index): the slice without the
\* element at index, the others in their order.
DelElemInSlice(slice, index) ==
    SubSeq(slice, 1, index - 1) \o SubSeq(slice, index + 1, Len(slice))

\* A variant of lines 411-417 without the "normal command before" test.
DeleteNumberBeforeDontUnguarded(buf, counter) ==
    IF counter - 1 >= 1
    THEN [buf EXCEPT ![counter - 1] = MARK_TERMINATION_FLOAT32]
    ELSE buf

\* Lines 411-417: delete_number_before_dont.
DeleteNumberBeforeDont(buf, counter) ==
    IF counter - 1 >= 1 /\ buf[counter - 1] > 0
    THEN [buf EXCEPT ![counter - 1] = MARK_TERMINATION_FLOAT32]
    ELSE buf

\* Lines 372-383: the positions from counter1 up to counter (the loop
\* leaves after it) that hold next_number, in their order.
RECURSIVE PosNextNumber(_, _, _, _)
PosNextNumber(buf, counter, next_number, counter1) ==
    IF counter1 > counter THEN <<>>
    ELSE (IF buf[counter1] = next_number THEN <<counter1>> ELSE <<>>)
         \o PosNextNumber(buf, counter, next_number, counter1 + 1)

\* Lines 390-392: every position of pos_next_number is marked.
RECURSIVE MarkPositions(_, _)
MarkPositions(buf, pos_next_number) ==
    IF pos_next_number = <<>> THEN buf
    ELSE MarkPositions([buf EXCEPT ![Head(pos_next_number)] = MARK_TERMINATION_FLOAT32],
                       Tail(pos_next_number))

\* Lines 384-392: the element after the "don't" and every copy found before
\* it are marked.
MarkCopies(buf, counter, pos_next_number) ==
    MarkPositions([buf EXCEPT ![counter + 1] = MARK_TERMINATION_FLOAT32], pos_next_number)

\* A variant of the loop body in which the "don't" itself is not marked.
MarkStepKeepDont(buf, counter) ==
    IF spec_cmd_dont_CONST # buf[counter] THEN buf
    ELSE IF counter # Len(buf)
         THEN LET next_number == buf[counter + 1]
                  pos_next_number == PosNextNumber(buf, counter, next_number, 1)
              IN  IF next_number > 0
                  THEN IF pos_next_number # <<>>
                       THEN MarkCopies(buf, counter, pos_next_number)
                       ELSE DeleteNumberBeforeDont(buf, counter)
                  ELSE buf
         ELSE DeleteNumberBeforeDont(buf, counter)

\* A variant of the loop body in which the element before the "don't" is
\* deleted in the "mentioned before" case too.
MarkStepAlsoBefore(buf, counter) ==
    IF spec_cmd_dont_CONST # buf[counter] THEN buf
    ELSE LET b1 == [buf EXCEPT ![counter] = MARK_TERMINATION_FLOAT32]
         IN  IF counter # Len(b1)
             THEN LET next_number == b1[counter + 1]
                      pos_next_number == PosNextNumber(b1, counter, next_number, 1)
                  IN  IF next_number > 0
                      THEN IF pos_next_number # <<>>
                           THEN DeleteNumberBeforeDont(
                                    MarkCopies(b1, counter, pos_next_number), counter)
                           ELSE DeleteNumberBeforeDont(b1, counter)
                      ELSE b1
             ELSE DeleteNumberBeforeDont(b1, counter)

\* Lines 355-419: the body of the marking loop at index counter (from 1).
\* The range loop reads buf[counter] when it gets there, marks included.
MarkStep(buf, counter) ==
    IF spec_cmd_dont_CONST # buf[counter] THEN buf
    ELSE LET b1 == [buf EXCEPT ![counter] = MARK_TERMINATION_FLOAT32]
         IN  IF counter # Len(b1)
             THEN LET next_number == b1[counter + 1]
                      pos_next_number == PosNextNumber(b1, counter, next_number, 1)
                  IN  IF next_number > 0
                      THEN IF pos_next_number # <<>>
                           THEN MarkCopies(b1, counter, pos_next_number)
                           ELSE DeleteNumberBeforeDont(b1, counter)
                      ELSE b1
             ELSE DeleteNumberBeforeDont(b1, counter)

\* Lines 355-419: the buffer after the iterations 1..n of the marking loop.
RECURSIVE MarkedUpTo(_, _)
MarkedUpTo(buf, n) ==
    IF n = 0 THEN buf ELSE MarkStep(MarkedUpTo(buf, n - 1), n)

\* Lines 424-430: delete all elements marked for deletion, from counter on.
RECURSIVE DeleteMarked(_, _)
DeleteMarked(buf, counter) ==
    IF counter > Len(buf) THEN buf
    ELSE IF MARK_TERMINATION_FLOAT32 = buf[counter]
         THEN DeleteMarked(DelElemInSlice(buf, counter), counter)
         ELSE DeleteMarked(buf, counter + 1)

taskFilter(cmds) == DeleteMarked(MarkedUpTo(cmds, Len(cmds)), 1)

---------------------------------------------------------------------------
(* removeRepeatedCmds, lines 148-174 *)

\* A variant of lines 154-160 that marks the repeated element itself, not
\* the one before it.
RECURSIVE MarkRepeatedNext(_, _)
MarkRepeatedNext(ret_var_list, counter) ==
    IF counter > Len(ret_var_list) THEN ret_var_list
    ELSE IF counter # Len(ret_var_list) /\ ret_var_list[counter + 1] = ret_var_list[counter]
         THEN MarkRepeatedNext(
                 [ret_var_list EXCEPT ![counter + 1] = <<MARK_TERMINATION_STR>>], counter + 1)
         ELSE MarkRepeatedNext(ret_var_list, counter + 1)

\* Lines 154-160: mark every element equal to the one after it.
RECURSIVE MarkRepeated(_, _)
MarkRepeated(ret_var_list, counter) ==
    IF counter > Len(ret_var_list) THEN ret_var_list
    ELSE IF counter # Len(ret_var_list) /\ ret_var_list[counter + 1] = ret_var_list[counter]
         THEN MarkRepeated(
                 [ret_var_list EXCEPT ![counter] = <<MARK_TERMINATION_STR>>], counter + 1)
         ELSE MarkRepeated(ret_var_list, counter + 1)

\* Lines 162-167: ret_var += command + CMDS_SEPARATOR for the unmarked ones.
RECURSIVE JoinUnmarked(_, _)
JoinUnmarked(ret_var_list, i) ==
    IF i > Len(ret_var_list) THEN <<>>
    ELSE (IF ret_var_list[i] # <<MARK_TERMINATION_STR>>
          THEN ret_var_list[i] \o <<CMDS_SEPARATOR>> ELSE <<>>)
         \o JoinUnmarked(ret_var_list, i + 1)

\* Lines 111-113 and 169-171: drop one trailing separator.
TrimSeparator(str) == IF HasSuffix(str) THEN Front(str) ELSE str

removeRepeatedCmds(str) ==
    TrimSeparator(JoinUnmarked(MarkRepeated(Split(str), 1), 1))

---------------------------------------------------------------------------
(* The list of allowed commands and the joined result, lines 82-121 *)

\* Lines 82-86: every field of the list goes through Atoi and is appended.
RECURSIVE AtoiEach(_)
AtoiEach(fields) ==
    IF fields = <<>> THEN <<>> ELSE <<Atoi(Head(fields))>> \o AtoiEach(Tail(fields))

ParseAllowedCmds(str) == AtoiEach(Split(str))

\* Lines 103-106: ret_var += fmt.Sprint(command) + CMDS_SEPARATOR.
RECURSIVE JoinCmds(_, _)
JoinCmds(cmds, i) ==
    IF i > Len(cmds) THEN <<>>
    ELSE <<Sprint(cmds[i]), CMDS_SEPARATOR>> \o JoinCmds(cmds, i + 1)

\* A variant of lines 103-113 that leaves the trailing separator in place.
FormatCmdsUntrimmed(cmds) == JoinCmds(cmds, 1)

\* Lines 103-113: the joined list without its trailing separator.
FormatCmds(cmds) == TrimSeparator(JoinCmds(cmds, 1))

\* Lines 82-86 and 98-121, for the token slice sentence_ that line 98 hands
\* to sentenceCmdsDetector.  det is what sentenceCmdsDetector returned
\* (tagged), cmds the buffer after taskFilter, ret the returned string.
CmdsOfSentence(sentence_, allowed_str) ==
    LET r == sentenceCmdsDetector(sentence_, ParseAllowedCmds(allowed_str))
    IN  IF r.panic
        THEN [panic |-> TRUE, e |-> r.e, sentence |-> sentence_, det |-> <<>>,
              cmds |-> <<>>, ret |-> <<>>]
        ELSE LET cmds == taskFilter(Codes(r.ret))
             IN  [panic |-> FALSE, e |-> <<>>, sentence |-> sentence_, det |-> r.ret,
                  cmds |-> cmds, ret |-> FormatCmds(cmds)]

---------------------------------------------------------------------------
(* Inputs *)

\* The negation marker, the anaphora placeholder, two words of the catalog
\* and the empty token (what strings.Split gives between two spaces).
Tokens == {DONT_WORD, WHATS_IT, "on", "wifi", ""}

\* The token slices of the model, the empty one included.
Sentences == SeqsUpTo(Tokens, MaxTokens)

\* The sentence strings of the model: the empty string, a negation marker
\* alone, and a trigger word followed by an "it".
SentenceStrs == {<<>>, <<DONT_WORD>>, <<"on", WORDS_SEPARATOR, "it">>}

\* The fields of an allowed_cmds string: ids of the catalog, the reserved
\* id 0, an id above the highest, a word, and the empty field.
AllowedFields == {<<"1">>, <<"2">>, <<"0">>, <<"3">>, <<"x">>, <<>>}

RECURSIVE JoinFields(_)
JoinFields(fields) ==
    IF Len(fields) = 1 THEN fields[1]
    ELSE fields[1] \o <<CMDS_SEPARATOR>> \o JoinFields(Tail(fields))

AllowedStrings ==
    {JoinFields(fields) : fields \in SeqsUpTo(AllowedFields, MaxAllowed) \ {<<>>}}

\* Codes a buffer given to taskFilter can hold: the unresolved-it warning,
\* the "don't", the restricted value 0 and two command codes.
FilterCodes == {-2, spec_cmd_dont_CONST, MARK_TERMINATION_FLOAT32, 24, 25}

DedupeCodes == {<<"1">>, <<"3">>, <<"4">>}

DedupeStrings ==
    {<<>>} \cup {JoinFields(fields) : fields \in SeqsUpTo(DedupeCodes, MaxDedupe) \ {<<>>}}

---------------------------------------------------------------------------
(* The collaborators of MainInternal, lines 79-93.  Each is given by the  *)
(* results it may leave: its code is not in Main.go and nothing there      *)
(* restricts what it returns or writes through the pointer it receives.    *)

\* sentenceCorrection(sentence_str), line 79: the strings it may return.
sentenceCorrection(sentence_str_) == SentenceStrs

\* sentenceNLPPreparation(&sentence, before_nlp_analysis), lines 89 and 93:
\* the slices it may leave in *sentence, when handed one of sentences.
sentenceNLPPreparation(sentences, before_nlp_analysis) ==
    IF sentences = {} THEN {} ELSE Sentences

\* nlpAnalyzer(&sentence, sentence_str), line 91: the slices it may leave in
\* *sentence (the "it"s replaced), when handed one of sentences.
nlpAnalyzer(sentences) ==
    IF sentences = {} THEN {} ELSE Sentences

---------------------------------------------------------------------------
(* MainInternal and Main, lines 53-122 *)

\* Lines 79-93: the token slices that may reach line 98.
PreparedSentences(sentence_str_) ==
    LET split == {SplitWords(corrected) : corrected \in sentenceCorrection(sentence_str_)}
        prepared == sentenceNLPPreparation(split, TRUE)
        analyzed == nlpAnalyzer(prepared)
    IN  sentenceNLPPreparation(analyzed, FALSE)

\* Lines 78-122: the outcomes of the call, one per slice that may reach
\* line 98; an outcome with panic set leaves by the panic, not by a return.
MainInternal(sentence_str_, allowed_str) ==
    {CmdsOfSentence(sentence_, allowed_str) : sentence_ \in PreparedSentences(sentence_str_)}

\* Lines 56-63: Tcf runs Try, and on a panic Catch, which sets the return to
\* ERR_CMD_DETECT followed by the text of the exception.
Tcf(r) ==
    IF r.panic THEN [r EXCEPT !.ret = <<ERR_CMD_DETECT>> \o r.e] ELSE r

\* Lines 53-66: the outcomes of the call.
Main(sentence_str_, allowed_str) ==
    {Tcf(r) : r \in MainInternal(sentence_str_, allowed_str)}

---------------------------------------------------------------------------
(* The calls *)

\* Main or MainInternal is called on some sentence string and list.
Init ==
    /\ pc = "main"
    /\ sentence_str \in SentenceStrs
    /\ allowed_cmds_str \in AllowedStrings
    /\ sentence = <<>>
    /\ detected = <<>> /\ sentence_cmds = <<>> /\ ret_var = <<>>
    /\ filter_in = <<>> /\ filter_once = <<>>
    /\ dedupe_in = <<>> /\ dedupe_once = <<>>

\* Main(sentence_str, allowed_cmds): the production entry point.
CallMain ==
    /\ pc = "main"
    /\ \E r \in Main(sentence_str, allowed_cmds_str) :
           /\ sentence' = r.sentence
           /\ detected' = r.det
           /\ sentence_cmds' = r.cmds
           /\ ret_var' = r.ret
    /\ pc' = "returned"
    /\ UNCHANGED <<sentence_str, allowed_cmds_str, filter_in, filter_once,
                   dedupe_in, dedupe_once>>

\* MainInternal(sentence_str, allowed_cmds_str) called directly (it is
\* exported for tests): a panic leaves the call, nothing is returned.
CallMainInternal ==
    /\ pc = "main"
    /\ \E r \in MainInternal(sentence_str, allowed_cmds_str) :
           /\ sentence' = r.sentence
           /\ detected' = r.det
           /\ sentence_cmds' = r.cmds
           /\ ret_var' = r.ret
           /\ pc' = IF r.panic THEN "internal_panicked" ELSE "internal_returned"
    /\ UNCHANGED <<sentence_str, allowed_cmds_str, filter_in, filter_once,
                   dedupe_in, dedupe_once>>

Next == CallMain \/ CallMainInternal

Spec == Init /\ [][Next]_vars

\* taskFilter(&sentence_cmds) is called on some buffer, and then once more
\* on what it left.
InitFilter ==
    /\ pc = "filter"
    /\ sentence_cmds \in SeqsUpTo(FilterCodes, MaxCmds)
    /\ filter_in = sentence_cmds
    /\ filter_once = <<>>
    /\ sentence_str = <<>> /\ sentence = <<>> /\ allowed_cmds_str = <<>>
    /\ detected = <<>> /\ ret_var = <<>>
    /\ dedupe_in = <<>> /\ dedupe_once = <<>>

CallTaskFilter ==
    /\ pc = "filter"
    /\ sentence_cmds' = taskFilter(sentence_cmds)
    /\ filter_once' = sentence_cmds'
    /\ pc' = "filtered"
    /\ UNCHANGED <<sentence_str, sentence, allowed_cmds_str, detected, ret_var, filter_in,
                   dedupe_in, dedupe_once>>

CallTaskFilterAgain ==
    /\ pc = "filtered"
    /\ sentence_cmds' = taskFilter(sentence_cmds)
    /\ pc' = "refiltered"
    /\ UNCHANGED <<sentence_str, sentence, allowed_cmds_str, detected, ret_var, filter_in,
                   filter_once, dedupe_in, dedupe_once>>

NextFilter == CallTaskFilter \/ CallTaskFilterAgain

SpecFilter == InitFilter /\ [][NextFilter]_vars

\* removeRepeatedCmds(ret_var) is called on some joined list, and then once
\* more on what it returned.
InitDedupe ==
    /\ pc = "dedupe"
    /\ ret_var \in DedupeStrings
    /\ dedupe_in = ret_var
    /\ dedupe_once = <<>>
    /\ sentence_str = <<>> /\ sentence = <<>> /\ allowed_cmds_str = <<>> /\ detected = <<>>
    /\ sentence_cmds = <<>> /\ filter_in = <<>> /\ filter_once = <<>>

CallRemoveRepeatedCmds ==
    /\ pc = "dedupe"
    /\ ret_var' = removeRepeatedCmds(ret_var)
    /\ dedupe_once' = ret_var'
    /\ pc' = "deduped"
    /\ UNCHANGED <<sentence_str, sentence, allowed_cmds_str, detected, sentence_cmds, filter_in,
                   filter_once, dedupe_in>>

CallRemoveRepeatedCmdsAgain ==
    /\ pc = "deduped"
    /\ ret_var' = removeRepeatedCmds(ret_var)
    /\ pc' = "rededuped"
    /\ UNCHANGED <<sentence_str, sentence, allowed_cmds_str, detected, sentence_cmds, filter_in,
                   filter_once, dedupe_in, dedupe_once>>

NextDedupe == CallRemoveRepeatedCmds \/ CallRemoveRepeatedCmdsAgain

SpecDedupe == InitDedupe /\ [][NextDedupe]_vars

---------------------------------------------------------------------------
(* Vocabulary of the properties *)

\* The allowed ids as parsed from the string of the call.
AllowedIds == ParseAllowedCmds(allowed_cmds_str)

ValidId(id) == id >= 1 /\ id <= HIGHEST_CMD_INT

Returned == pc = "returned"

Faulted == HasPrefix(ret_var)

OrdinaryToken(word) == word # DONT_WORD /\ word # WHATS_IT

\* list joined by the separator, nothing after the last element.
RECURSIVE Interleave(_)
Interleave(list) ==
    IF Len(list) = 0 THEN <<>>
    ELSE IF Len(list) = 1 THEN <<list[1]>>
    ELSE <<list[1], CMDS_SEPARATOR>> \o Interleave(Tail(list))

Count(s, v) == Cardinality({i \in 1..Len(s) : s[i] = v})

\* sub is s with some elements left out, order kept.
RECURSIVE IsSubseq(_, _)
IsSubseq(sub, s) ==
    IF sub = <<>> THEN TRUE
    ELSE IF s = <<>> THEN FALSE
    ELSE IF Head(sub) = Head(s) THEN IsSubseq(Tail(sub), Tail(s))
    ELSE IsSubseq(sub, Tail(s))

---------------------------------------------------------------------------
(* C1 *)

\* C1 (as claimed): whenever some id of the allowed-id list is <= 0 or above
\* the highest catalog id, the call returns an error-prefixed string,
\* whatever the tokens are.
C1_InvalidIdAlwaysFaults ==
    (Returned /\ \E k \in 1..Len(AllowedIds) : ~ValidId(AllowedIds[k])) => Faulted

---------------------------------------------------------------------------
(* C2 *)

IntegerField(field) == Len(field) = 1 /\ field[1] \in DOMAIN Numerals

ValidField(field) == IntegerField(field) /\ ValidId(Numerals[field[1]])

\* The fields of the allowed string that spell valid ids, in their order.
ValidFields == SelectSeq(Split(allowed_cmds_str), ValidField)

\* C2 (as claimed): when some field of the allowed string is not an integer
\* and every other field is a valid id, the call does not return an
\* error-prefixed string, and with valid ids present it returns what the
\* list of the valid ids alone gives.
C2_MalformedListNotFatal ==
    LET fields == Split(allowed_cmds_str)
    IN  ( /\ Returned
          /\ \E k \in 1..Len(fields) : ~IntegerField(fields[k])
          /\ \A k \in 1..Len(fields) : IntegerField(fields[k]) => ValidField(fields[k]) )
        => /\ ~Faulted
           /\ ValidFields # <<>> =>
                ret_var = Tcf(CmdsOfSentence(sentence, JoinFields(ValidFields))).ret

---------------------------------------------------------------------------
(* C3 *)

AllIdsValid == \A k \in 1..Len(AllowedIds) : ValidId(AllowedIds[k])

\* No token of the sentence is a trigger word of an allowed command.
NoTriggerWord ==
    /\ AllIdsValid
    /\ \A i \in 1..Len(sentence) : \A k \in 1..Len(AllowedIds) :
            sentence[i] \notin Range(main_words_GL[AllowedIds[k]])

\* The unresolved-it code, once per anaphora placeholder of the sentence.
RECURSIVE WarningsOf(_)
WarningsOf(words) ==
    IF words = <<>> THEN <<>>
    ELSE (IF Head(words) = WHATS_IT THEN <<WARN_WHATS_IT>> ELSE <<>>) \o WarningsOf(Tail(words))

Placeholders == WarningsOf(sentence)

\* C3 (as claimed): with valid ids and no trigger word of an allowed command
\* in the sentence, the returned string is empty, negation markers and
\* anaphora placeholders included.
C3_NoTriggerGivesEmpty ==
    (Returned /\ NoTriggerWord) => ret_var = <<>>

\* C3 (amended): with valid ids and no trigger word of an allowed command in
\* the sentence, the returned string holds no command code and no "don't":
\* it is the unresolved-it code once per anaphora placeholder, joined by the
\* separator, hence empty exactly when the sentence has no placeholder.
C3_NoTriggerGivesOnlyWarnings ==
    (Returned /\ NoTriggerWord) =>
        /\ ret_var = Interleave(Placeholders)

        /\ (ret_var = <<>>) <=> (WHATS_IT \notin Range(sentence))

C3_Witness ==
    /\ Returned /\ NoTriggerWord
    /\ DONT_WORD \in Range(sentence) /\ "wifi" \in Range(sentence)
    /\ Last(sentence) = DONT_WORD
    /\ ret_var = <<WARN_WHATS_IT>>

---------------------------------------------------------------------------
(* C7 *)

\* The codes the detector appended for token i and allowed position k.
AppendedAt(i, k) ==
    Codes(SelectSeq(detected, LAMBDA e : e.tok = i /\ e.idx = k))

\* The value a sub-condition refers to: the triggering token for index -1,
\* else the role of that index.
Referred(sub_cond, word, results) ==
    IF sub_cond[1] = "-1" THEN word ELSE results[Numerals[sub_cond[1]] + 1][1]

\* An alternative succeeds when it is a literal or every sub-condition's
\* referred value is in its acceptance set.
AlternativeHolds(alt, word, results) ==
    \/ Len(alt) = 1
    \/ \A j \in 1..(Len(alt) - 1) :
            Referred(alt[j], word, results) \in {alt[j][w] : w \in 2..Len(alt[j])}

TerminalCode(alt) == Numerals[Last(alt)[1]]

\* Token i triggers the command at allowed position k and passes its gates.
PassesGates(i, k) ==
    /\ OrdinaryToken(sentence[i])
    /\ sentence[i] \in Range(main_words_GL[AllowedIds[k]])
    /\ checkResultsWordsVerifFunc(sentence[i],
            wordsVerificationFunction(sentence, i, AllowedIds[k]),
            conditions_continue_GL[AllowedIds[k]],
            conditions_not_continue_GL[AllowedIds[k]])

Succeeding(i, k) ==
    LET alts == conditions_return_GL[AllowedIds[k]]
    IN  {n \in 1..Len(alts) :
            AlternativeHolds(alts[n], sentence[i],
                             wordsVerificationFunction(sentence, i, AllowedIds[k]))}

\* C7: for a trigger occurrence and an allowed command that passes the
\* gates, exactly the terminal code of the first alternative that succeeds
\* is appended, and nothing when no alternative succeeds.
C7_FirstMatchWins ==
    (Returned /\ ~Faulted) =>
        \A i \in 1..Len(sentence) : \A k \in 1..Len(AllowedIds) :
            PassesGates(i, k) =>
                IF Succeeding(i, k) = {}
                THEN AppendedAt(i, k) = <<>>
                ELSE AppendedAt(i, k) =
                        <<TerminalCode(conditions_return_GL[AllowedIds[k]][Min(Succeeding(i, k))])>>

\* Two alternatives succeed and the first gives the code; elsewhere a
\* command passes the gates and no alternative succeeds.
C7_Witness ==
    /\ Returned /\ ~Faulted
    /\ \E i \in 1..Len(sentence) : \E k \in 1..Len(AllowedIds) :
            /\ PassesGates(i, k)
            /\ Cardinality(Succeeding(i, k)) >= 2
            /\ Min(Succeeding(i, k)) > 1
            /\ Len(AppendedAt(i, k)) = 1
    /\ \E i \in 1..Len(sentence) : \E k \in 1..Len(AllowedIds) :
            PassesGates(i, k) /\ Succeeding(i, k) = {}

---------------------------------------------------------------------------
(* C8 *)

\* C8: the detected codes are in token order, within a token in the order
\* of the allowed list, each from a command of that list position (or a
\* sentinel of a special token), and a negation marker gives exactly one
\* "don't" and no command code.
C8_ScanOrder ==
    (Returned /\ ~Faulted) =>
        /\ \A a \in 1..Len(detected) : \A b \in 1..Len(detected) :
                a < b => \/ detected[a].tok < detected[b].tok
                         \/ /\ detected[a].tok = detected[b].tok
                            /\ detected[a].idx <= detected[b].idx
        /\ \A a \in 1..Len(detected) :
                LET e == detected[a]
                IN  IF OrdinaryToken(sentence[e.tok])
                    THEN /\ e.idx \in 1..Len(AllowedIds)
                         /\ \E n \in 1..Len(conditions_return_GL[AllowedIds[e.idx]]) :
                                e.code = TerminalCode(conditions_return_GL[AllowedIds[e.idx]][n])
                    ELSE e.idx = 0
        /\ \A i \in 1..Len(sentence) :
                sentence[i] = DONT_WORD =>
                    SelectSeq(detected, LAMBDA e : e.tok = i)
                        = <<[code |-> spec_cmd_dont_CONST, tok |-> i, idx |-> 0]>>

\* A token gives two codes, by two allowed commands; a later token gives a
\* code; and a negation marker stands in a sentence whose allowed commands
\* have "don't" among their trigger words.
C8_Witness ==
    /\ Returned /\ ~Faulted
    /\ \E a \in 1..Len(detected) : \E b \in 1..Len(detected) :
            /\ detected[a].tok = detected[b].tok
            /\ detected[a].idx < detected[b].idx
            /\ \E c \in 1..Len(detected) :
                    detected[c].tok > detected[b].tok /\ detected[c].code > 0
    /\ \E i \in 1..Len(sentence) : \E k \in 1..Len(AllowedIds) :
            /\ sentence[i] = DONT_WORD
            /\ DONT_WORD \in Range(main_words_GL[AllowedIds[k]])

---------------------------------------------------------------------------
(* Vocabulary of the taskFilter properties *)

Filtered == pc = "filtered"

\* The buffer when the marking loop reaches index p, and when it leaves it.
BufferBefore(p) == MarkedUpTo(filter_in, p - 1)

BufferAfter(p) == MarkedUpTo(filter_in, p)

FinalMarks == MarkedUpTo(filter_in, Len(filter_in))

\* The positions of the given buffer that are not marked in the end.
Survivors == {q \in 1..Len(filter_in) : FinalMarks[q] # MARK_TERMINATION_FLOAT32}

\* The "don't" at p is followed by a normal command c that stands, not yet
\* deleted, somewhere before p.
RetractionCase(p) ==
    /\ p < Len(filter_in)
    /\ BufferBefore(p)[p] = spec_cmd_dont_CONST
    /\ BufferBefore(p)[p + 1] > 0
    /\ \E q \in 1..(p - 1) : BufferBefore(p)[q] = BufferBefore(p)[p + 1]

\* The "don't" at p is followed by a special command, with a normal command
\* right before it.
FallbackCase(p) ==
    /\ p > 1 /\ p < Len(filter_in)
    /\ BufferBefore(p)[p] = spec_cmd_dont_CONST
    /\ BufferBefore(p)[p + 1] < 0
    /\ BufferBefore(p)[p - 1] > 0

---------------------------------------------------------------------------
(* C4 *)

\* C4: filtering what taskFilter left changes nothing, and what taskFilter
\* leaves holds no "don't".
C4_ResolverIdempotent ==
    /\ pc = "refiltered" => sentence_cmds = filter_once
    /\ pc \in {"filtered", "refiltered"} => spec_cmd_dont_CONST \notin Range(sentence_cmds)

\* A second call after a first one that deleted a "don't" and a command and
\* left something.
C4_Witness ==
    /\ pc = "refiltered"
    /\ spec_cmd_dont_CONST \in Range(filter_in)
    /\ filter_once # <<>>
    /\ \E c \in Range(filter_in) : c > 0 /\ c \notin Range(filter_once)
    /\ sentence_cmds = filter_once

---------------------------------------------------------------------------
(* C5 *)

\* C5: in the retraction case the "don't" at p, the element at p+1 and
\* every not yet deleted copy of c before p are marked by that iteration and
\* absent from the result, which is the given buffer at the unmarked
\* positions; the iteration leaves the element at p-1 alone unless it is c;
\* [c, -1, c] gives [] and [24, -1, 26, 25, -1, 25, 24] gives [26, 24].
C5_Retraction ==
    /\ Filtered =>
        \A p \in 1..Len(filter_in) :
            RetractionCase(p) =>
                LET before == BufferBefore(p)
                    after == BufferAfter(p)
                    c == before[p + 1]
                    copies == {q \in 1..(p - 1) : before[q] = c}
                IN  /\ \A q \in copies \cup {p, p + 1} :
                            /\ after[q] = MARK_TERMINATION_FLOAT32
                            /\ q \notin Survivors
                    /\ \A q \in 1..Len(filter_in) :
                            q \notin copies \cup {p, p + 1} => after[q] = before[q]
                    /\ sentence_cmds = Pick(filter_in, Survivors)
    /\ \A c \in {24, 25} :
            (Filtered /\ filter_in = <<c, spec_cmd_dont_CONST, c>>) => sentence_cmds = <<>>
    /\ taskFilter(<<24, -1, 26, 25, -1, 25, 24>>) = <<26, 24>>

\* A retraction with another command right before the "don't", which stays.
C5_Witness ==
    /\ Filtered
    /\ \E p \in 2..Len(filter_in) :
            /\ RetractionCase(p)
            /\ BufferBefore(p)[p - 1] > 0
            /\ BufferBefore(p)[p - 1] # BufferBefore(p)[p + 1]
            /\ (p - 1) \in Survivors
            /\ Count(filter_in, filter_in[p + 1]) >= 3
            /\ filter_in[p + 1] \notin Range(sentence_cmds)

---------------------------------------------------------------------------
(* C6 *)

\* C6 (as claimed): when the element after a "don't" at p is a special
\* command, the iteration marks the normal command at p-1 for deletion, so
\* that it is absent from the result; [24, -1, -1, 25] loses the 24.
C6_FallbackOnSentinel ==
    /\ Filtered =>
            \A p \in 1..Len(filter_in) :
                FallbackCase(p) =>
                    /\ BufferAfter(p)[p - 1] = MARK_TERMINATION_FLOAT32
                    /\ (p - 1) \notin Survivors
    /\ (Filtered /\ filter_in = <<24, spec_cmd_dont_CONST, spec_cmd_dont_CONST, 25>>)
            => 24 \notin Range(sentence_cmds)

---------------------------------------------------------------------------
(* C10 *)

SpecialCodes == {c \in FilterCodes : c < 0 /\ c # spec_cmd_dont_CONST}

\* C10: what taskFilter leaves is the given buffer with elements left out,
\* order kept; every special command other than "don't" is still there; and
\* no element is the deletion mark 0.
C10_SubsequenceKeepsSentinels ==
    Filtered =>
        /\ IsSubseq(sentence_cmds, filter_in)
        /\ \A c \in SpecialCodes : Count(sentence_cmds, c) = Count(filter_in, c)
        /\ MARK_TERMINATION_FLOAT32 \notin Range(sentence_cmds)

\* A special command right before a last "don't", and a 0 in the buffer.
C10_Witness ==
    /\ Filtered
    /\ Len(filter_in) >= 3
    /\ Last(filter_in) = spec_cmd_dont_CONST
    /\ filter_in[Len(filter_in) - 1] \in SpecialCodes
    /\ MARK_TERMINATION_FLOAT32 \in Range(filter_in)
    /\ \E c \in Range(filter_in) : c > 0
    /\ Len(sentence_cmds) >= 2

---------------------------------------------------------------------------
(* C9 *)

\* The codes of a joined list, in their order.
RECURSIVE CodeList(_)
CodeList(str) ==
    IF Len(str) = 0 THEN <<>>
    ELSE IF Len(str) <= 2 THEN <<str[1]>>
    ELSE <<str[1]>> \o CodeList(SubSeq(str, 3, Len(str)))

\* The positions of a list whose element differs from the next one.
NotRepeated(list) ==
    {i \in 1..Len(list) : i = Len(list) \/ list[i] # list[i + 1]}

\* C9: removeRepeatedCmds returns the list without the elements equal to
\* their immediate successor, and applied to its own result returns it
\* unchanged; [a,a,a,b] gives [a,b] and [1,3,3,4,3,4] gives [1,3,4,3,4].
C9_DedupeIdempotent ==
    /\ pc = "rededuped" => ret_var = dedupe_once
    /\ pc = "deduped" =>
            ret_var = Interleave(Pick(CodeList(dedupe_in), NotRepeated(CodeList(dedupe_in))))
    /\ (pc = "deduped" /\ dedupe_in = Interleave(<<"1", "3", "3", "4", "3", "4">>))
            => ret_var = Interleave(<<"1", "3", "4", "3", "4">>)
    /\ \A a \in {"1", "3"} :
            (pc = "deduped" /\ dedupe_in = Interleave(<<a, a, a, "4">>))
                => ret_var = Interleave(<<a, "4">>)

\* A second call after a first one that collapsed a run of three and left a
\* code twice.
C9_Witness ==
    /\ pc = "rededuped"
    /\ \E i \in 1..(Len(CodeList(dedupe_in)) - 2) :
            /\ CodeList(dedupe_in)[i] = CodeList(dedupe_in)[i + 1]
            /\ CodeList(dedupe_in)[i] = CodeList(dedupe_in)[i + 2]
    /\ \E i \in 1..Len(CodeList(dedupe_once)) : \E j \in 1..Len(CodeList(dedupe_once)) :
            i < j /\ CodeList(dedupe_once)[i] = CodeList(dedupe_once)[j]
    /\ ret_var = dedupe_once

===========================================================================
